---- MODULE Spec2Model ----
(***************************************************************************)
(* RouteBuilder (src/main.py): the build pipeline                          *)
(*   distance table -> assignment order -> reorder -> route geometry ->    *)
(*   map -> file                                                           *)
(* and the pure function _optimize_route_scipy, which reads an order off   *)
(* SciPy's linear_sum_assignment (the shortest augmenting path solver).    *)
(*                                                                         *)
(* Python lists are sequences (1-based here, 0-based in the code: the      *)
(* VALUES stored in an order are the code's 0-based indices).  The work    *)
(* arrays of the solver are functions on 0..n-1, as in the solver.         *)
(* Coordinates and finite distances are integers, so that sums are exact   *)
(* and f"{lng},{lat}" is ToString.  requests.get, response.json and        *)
(* route_map.save belong to the environment: an answer is any of a small   *)
(* set of answers, and save opens the file, then renders and writes the    *)
(* map, either of which may fail.                                          *)
(***************************************************************************)
EXTENDS Integers, Sequences, FiniteSets, TLC

(***************************************************************************)
(* Bounds of the model.                                                    *)
(***************************************************************************)
\* a matrix drawn for the optimizer has at most this many cells
MaxCells == 9
\* finite matrix entries are drawn from 0..MaxDist
MaxDist == 2
\* rows and columns of a drawn matrix differ by at most this much
MaxSkew == 1
\* matrices of at most this many cells may also hold non-finite entries
MaxNonFiniteCells == 4
\* a distance table answered to a build has at most this many cells, unless
\* it is a well-formed table for the locations of the build
MaxTableCells == 4
\* a route geometry answered to a build has at most this many points
MaxPoints == 3

(***************************************************************************)
(* Floating point values: a finite number, +inf, -inf or NaN.              *)
(***************************************************************************)
Fin(n) == [k |-> "fin", v |-> n]
Inf == [k |-> "inf", v |-> 0]
NegInf == [k |-> "ninf", v |-> 0]
NaN == [k |-> "nan", v |-> 0]

IsFinite(x) == x.k = "fin"

\* x < y on finite values and +inf (the only values the solver compares)
FLess(x, y) == /\ x.k = "fin"
               /\ \/ y.k = "inf"
                  \/ y.k = "fin" /\ x.v < y.v

Rows(m) == Len(m)
Cols(m) == Len(m[1])
\* m[i][j] of the code, 0-based
At(m, i, j) == m[i + 1][j + 1]

(***************************************************************************)
(* scipy.optimize.linear_sum_assignment, as called at src/main.py:139.     *)
(***************************************************************************)
\* the constant function on 0..n-1
Filled(n, x) == [t \in 0..(n - 1) |-> x]

\* The inner for loop of augmenting_path over remaining[0..num_remaining-1]:
\* relaxes the columns still outside the tree from row i and picks the
\* column of lowest reduced cost, preferring an unassigned column on ties.
RECURSIVE ScanRemaining(_, _, _, _, _, _, _, _)
ScanRemaining(it, s, cost, u, v, row4col, lowest, index) ==
    IF it >= s.num_remaining
    THEN [path |-> s.path, spc |-> s.spc, lowest |-> lowest, index |-> index]
    ELSE LET j == s.remaining[it]
             c == At(cost, s.i, j)
             r == IF c.k = "inf" THEN Inf
                  ELSE Fin(s.minVal + c.v - u[s.i] - v[j])
             better == FLess(r, s.spc[j])
             path1 == IF better THEN [s.path EXCEPT ![j] = s.i] ELSE s.path
             spc1 == IF better THEN [s.spc EXCEPT ![j] = r] ELSE s.spc
             take == \/ FLess(spc1[j], lowest)
                     \/ spc1[j] = lowest /\ row4col[j] = -1
         IN  ScanRemaining(it + 1, [s EXCEPT !.path = path1, !.spc = spc1],
                           cost, u, v, row4col,
                           IF take THEN spc1[j] ELSE lowest,
                           IF take THEN it ELSE index)

\* The rest of one round of the while loop, given the scan sc of the
\* remaining columns: no finite reduced cost left means the matrix is
\* infeasible; otherwise the chosen column j joins the tree, and either it
\* is unassigned (the sink) or the search goes on from its row.
AfterScan(s, sc, row4col) ==
    IF sc.lowest.k = "inf"
    THEN [s EXCEPT !.infeasible = TRUE]
    ELSE LET j == s.remaining[sc.index]
             last == s.num_remaining - 1
         IN  [s EXCEPT !.path = sc.path,
                       !.spc = sc.spc,
                       !.minVal = sc.lowest.v,
                       !.sink = IF row4col[j] = -1 THEN j ELSE -1,
                       !.i = IF row4col[j] = -1 THEN s.i ELSE row4col[j],
                       !.SC[j] = TRUE,
                       !.remaining[sc.index] = s.remaining[last],
                       !.num_remaining = last]

\* SR[i] = true at the head of a round
MarkRow(s) == [s EXCEPT !.SR[s.i] = TRUE]

\* The while (sink == -1) loop of augmenting_path.
RECURSIVE FindSink(_, _, _, _, _)
FindSink(s, cost, u, v, row4col) ==
    IF s.sink # -1 \/ s.infeasible
    THEN s
    ELSE FindSink(AfterScan(MarkRow(s),
                            ScanRemaining(0, MarkRow(s), cost, u, v,
                                          row4col, Inf, -1),
                            row4col),
                  cost, u, v, row4col)

\* augmenting_path: the shortest augmenting path from row i.  The list of
\* remaining columns is filled in reverse order.
augmenting_path(nr, nc, cost, u, v, path, row4col, i) ==
    FindSink([i |-> i, minVal |-> 0, num_remaining |-> nc,
              remaining |-> [t \in 0..(nc - 1) |-> nc - t - 1],
              SR |-> Filled(nr, FALSE), SC |-> Filled(nc, FALSE),
              spc |-> Filled(nc, Inf), path |-> path,
              sink |-> -1, infeasible |-> FALSE],
             cost, u, v, row4col)

\* "augment previous solution": walk the path back from the sink to curRow.
\* s holds col4row and row4col.
RECURSIVE Augment(_, _, _, _)
Augment(j, path, curRow, s) ==
    IF path[j] = curRow
    THEN [s EXCEPT !.row4col[j] = path[j], !.col4row[path[j]] = j]
    ELSE Augment(s.col4row[path[j]], path, curRow,
                 [s EXCEPT !.row4col[j] = path[j], !.col4row[path[j]] = j])

\* "update dual variables", rows: u[curRow] += minVal and, for every other
\* row i of the tree, u[i] += minVal - shortestPathCosts[col4row[i]]
UpdateRowDuals(nr, curRow, u, col4row, ap) ==
    [i \in 0..(nr - 1) |->
        IF i = curRow THEN u[i] + ap.minVal
        ELSE IF ap.SR[i] THEN u[i] + ap.minVal - ap.spc[col4row[i]].v
        ELSE u[i]]

\* (a variant that forgets the column duals)
UpdateColumnDualsSkipped(nc, v, ap) == v

\* "update dual variables", columns: for every column j of the tree,
\* v[j] -= minVal - shortestPathCosts[j]
UpdateColumnDuals(nc, v, ap) ==
    [j \in 0..(nc - 1) |->
        IF ap.SC[j] THEN v[j] - (ap.minVal - ap.spc[j].v) ELSE v[j]]

\* The body of the for loop of solve after augmenting_path gave ap: no sink
\* means infeasible; otherwise the duals are updated (with the assignment
\* as it was) and the assignment augmented.
AfterPath(nr, nc, curRow, s, ap) ==
    IF ap.infeasible
    THEN [s EXCEPT !.infeasible = TRUE]
    ELSE Augment(ap.sink, ap.path, curRow,
                 [s EXCEPT !.u = UpdateRowDuals(nr, curRow, s.u,
                                                s.col4row, ap),
                           !.v = UpdateColumnDuals(nc, s.v, ap),
                           !.path = ap.path])

\* The for loop of solve over curRow.
RECURSIVE SolveRows(_, _, _, _, _)
SolveRows(curRow, nr, nc, cost, s) ==
    IF curRow >= nr \/ s.infeasible
    THEN s
    ELSE SolveRows(curRow + 1, nr, nc, cost,
                   AfterPath(nr, nc, curRow, s,
                             augmenting_path(nr, nc, cost, s.u, s.v, s.path,
                                             s.row4col, curRow)))

Transpose(m) == [j \in 1..Cols(m) |-> [i \in 1..Rows(m) |-> m[i][j]]]

\* the index whose value is the (t+1)-th smallest of the (distinct) values of f
ArgSortAt(f, t) ==
    CHOOSE x \in DOMAIN f : Cardinality({y \in DOMAIN f : f[y] < f[x]}) = t

\* The end of solve: the assignment s as the two index arrays a (rows, in
\* increasing order) and b (their columns); after a transposition the
\* arrays are read off by argsort of col4row.
Assignment(s, transpose, nr) ==
    IF s.infeasible
    THEN [status |-> "infeasible", a |-> <<>>, b |-> <<>>]
    ELSE IF transpose
    THEN [status |-> "ok",
          a |-> [t \in 1..nr |-> s.col4row[ArgSortAt(s.col4row, t - 1)]],
          b |-> [t \in 1..nr |-> ArgSortAt(s.col4row, t - 1)]]
    ELSE [status |-> "ok",
          a |-> [t \in 1..nr |-> t - 1],
          b |-> [t \in 1..nr |-> s.col4row[t - 1]]]

\* solve on the cost matrix as the solver works on it (transposed if tall):
\* NaN and -inf are rejected, then the rows are assigned one by one.
SolveCost(cost, transpose) ==
    IF \E i \in 1..Rows(cost), j \in 1..Cols(cost) :
          cost[i][j].k \in {"nan", "ninf"}
    THEN [status |-> "invalid", a |-> <<>>, b |-> <<>>]
    ELSE Assignment(SolveRows(0, Rows(cost), Cols(cost), cost,
                              [u |-> Filled(Rows(cost), 0),
                               v |-> Filled(Cols(cost), 0),
                               path |-> Filled(Cols(cost), -1),
                               col4row |-> Filled(Rows(cost), -1),
                               row4col |-> Filled(Cols(cost), -1),
                               infeasible |-> FALSE]),
                    transpose, Rows(cost))

\* solve: a tall matrix is transposed first
solve(m) ==
    IF Cols(m) < Rows(m) THEN SolveCost(Transpose(m), TRUE)
    ELSE SolveCost(m, FALSE)

\* the Python side of linear_sum_assignment: the arrays, or a ValueError
ArraysOrValueError(r) ==
    IF r.status = "invalid"
    THEN [exc |-> "ValueError",
          msg |-> "matrix contains invalid numeric entries",
          row_ind |-> <<>>, col_ind |-> <<>>]
    ELSE IF r.status = "infeasible"
    THEN [exc |-> "ValueError", msg |-> "cost matrix is infeasible",
          row_ind |-> <<>>, col_ind |-> <<>>]
    ELSE [exc |-> "None", msg |-> "", row_ind |-> r.a, col_ind |-> r.b]

\* (a variant that was passed maximize=True: the costs are negated)
linear_sum_assignment_maximize(m) ==
    ArraysOrValueError(
        solve([i \in 1..Rows(m) |->
                 [j \in 1..Cols(m) |->
                    IF m[i][j].k = "fin" THEN Fin(0 - m[i][j].v)
                    ELSE IF m[i][j].k = "inf" THEN NegInf
                    ELSE IF m[i][j].k = "ninf" THEN Inf
                    ELSE NaN]]))

\* linear_sum_assignment(cost_matrix): (row_ind, col_ind), or a ValueError
linear_sum_assignment(m) == ArraysOrValueError(solve(m))

(***************************************************************************)
(* RouteBuilder._optimize_route_scipy                                      *)
(***************************************************************************)
\* (a variant that hands out 1-based positions)
RowOfEachColumnOneBased(lsa) ==
    IF lsa.exc # "None"
    THEN [exc |-> lsa.exc, msg |-> lsa.msg, value |-> <<>>]
    ELSE IF \E t \in 1..Len(lsa.col_ind) :
               lsa.col_ind[t] >= Len(lsa.row_ind)
    THEN [exc |-> "IndexError", msg |-> "list index out of range",
          value |-> <<>>]
    ELSE [exc |-> "None", msg |-> "",
          value |-> [t \in 1..Len(lsa.col_ind) |->
                       lsa.row_ind[lsa.col_ind[t] + 1] + 1]]

\* line 140, [row_ind[i] for i in col_ind]: IndexError when some i is past
\* the end of row_ind
RowOfEachColumn(lsa) ==
    IF lsa.exc # "None"
    THEN [exc |-> lsa.exc, msg |-> lsa.msg, value |-> <<>>]
    ELSE IF \E t \in 1..Len(lsa.col_ind) :
               lsa.col_ind[t] >= Len(lsa.row_ind)
    THEN [exc |-> "IndexError", msg |-> "list index out of range",
          value |-> <<>>]
    ELSE [exc |-> "None", msg |-> "",
          value |-> [t \in 1..Len(lsa.col_ind) |->
                       lsa.row_ind[lsa.col_ind[t] + 1]]]

\* lines 139-140
_optimize_route_scipy(distance_matrix) ==
    RowOfEachColumn(linear_sum_assignment(distance_matrix))

(***************************************************************************)
(* Strings that the code takes apart are sequences of characters.          *)
(***************************************************************************)
\* p.rfind(ch): the last 0-based position of ch in p, or -1
rfind(p, ch) ==
    IF \E t \in 1..Len(p) : p[t] = ch
    THEN (CHOOSE t \in 1..Len(p) :
             /\ p[t] = ch
             /\ \A t2 \in (t + 1)..Len(p) : p[t2] # ch) - 1
    ELSE -1

\* os.path.splitext(p)[1]: the extension starts at the last dot, provided
\* the dot comes after the last "/" and after a character of the file name
\* that is not a dot; otherwise it is empty.
splitext_ext(p) ==
    LET sepIndex == rfind(p, "/")
        dotIndex == rfind(p, ".")
    IN  IF /\ dotIndex > sepIndex
           /\ \E filenameIndex \in (sepIndex + 1)..(dotIndex - 1) :
                 p[filenameIndex + 1] # "."
        THEN SubSeq(p, dotIndex + 1, Len(p))
        ELSE <<>>

\* the directory that open(p, "wb") writes in: what comes before the last
\* "/" of the name, nothing for a name of the working directory
parent_directory(p) ==
    LET sepIndex == rfind(p, "/")
    IN  IF sepIndex > 0 THEN SubSeq(p, 1, sepIndex) ELSE <<>>

\* how the write of route_map.save ends once the file is open
SaveOutcomes == {"written", "failed"}

target_ext == <<".", "h", "t", "m", "l">>

(***************************************************************************)
(* Requests to OSRM.  A URL is kept as its three parts: the base, the list *)
(* of "lng,lat" items that the code joins with ";", and the query.         *)
(***************************************************************************)
\* f"{lng},{lat}" for a (lat, lng) pair
FormatCoordinate(loc) == ToString(loc[2]) \o "," \o ToString(loc[1])

table_url(values) ==
    [base |-> "http://router.project-osrm.org/table/v1/driving/",
     coordinates |-> [t \in 1..Len(values) |-> FormatCoordinate(values[t])],
     query |-> "?annotations=distance"]

route_url(ordered) ==
    [base |-> "http://router.project-osrm.org/route/v1/driving/",
     coordinates |-> [t \in 1..Len(ordered) |-> FormatCoordinate(ordered[t])],
     query |-> "?overview=full&geometries=geojson"]

(***************************************************************************)
(* Errors: the Python exception that ends the call, or none.               *)
(***************************************************************************)
NoError == [exc |-> "None", msg |-> ""]
Raise(exc, msg) == [exc |-> exc, msg |-> msg]

\* list(self.locations.values())
LocationValues(locs) == [t \in 1..Len(locs) |-> locs[t].coords]
LocationNames(locs) == {locs[t].name : t \in 1..Len(locs)}
\* self.locations[name]
Lookup(locs, name) ==
    (CHOOSE t \in 1..Len(locs) : locs[t].name = name)

\* the body of _get_distance_matrix after the response arrived
DistanceMatrixOf(resp) ==
    IF resp.exc # "None"
    THEN [err |-> Raise(resp.exc, ""), value |-> <<>>]
    ELSE IF resp.status_code # 200
    THEN [err |-> Raise("Exception",
                        "Failed to obtain distance matrix from OSRM"),
          value |-> <<>>]
    ELSE IF ~resp.is_json
    THEN [err |-> Raise("JSONDecodeError", ""), value |-> <<>>]
    ELSE IF "distances" \notin DOMAIN resp.data
    THEN [err |-> Raise("KeyError", "distances"), value |-> <<>>]
    ELSE [err |-> NoError, value |-> resp.data.distances]

\* the body of _get_route_via_osrm after the response arrived
RouteGeometryOf(resp) ==
    IF resp.exc # "None"
    THEN [err |-> Raise(resp.exc, ""), value |-> <<>>]
    ELSE IF resp.status_code # 200
    THEN [err |-> Raise("Exception", "Failed to obtain a route from OSRM"),
          value |-> <<>>]
    ELSE IF ~resp.is_json
    THEN [err |-> Raise("JSONDecodeError", ""), value |-> <<>>]
    ELSE IF "routes" \notin DOMAIN resp.data
    THEN [err |-> Raise("KeyError", "routes"), value |-> <<>>]
    ELSE IF Len(resp.data.routes) = 0
    THEN [err |-> Raise("IndexError", "list index out of range"),
          value |-> <<>>]
    ELSE IF "geometry" \notin DOMAIN resp.data.routes[1]
    THEN [err |-> Raise("KeyError", "geometry"), value |-> <<>>]
    ELSE IF "coordinates" \notin DOMAIN resp.data.routes[1].geometry
    THEN [err |-> Raise("KeyError", "coordinates"), value |-> <<>>]
    ELSE [err |-> NoError,
          value |-> resp.data.routes[1].geometry.coordinates]

\* [list(self.locations.values())[i] for i in route_order]
OrderedLocations(locs, order) ==
    IF \E t \in 1..Len(order) : order[t] >= Len(locs)
    THEN [err |-> Raise("IndexError", "list index out of range"),
          value |-> <<>>]
    ELSE [err |-> NoError,
          value |-> [t \in 1..Len(order) |-> locs[order[t] + 1].coords]]

NoMap == [location |-> <<>>, zoom_start |-> 0, polylines |-> <<>>,
          markers |-> <<>>]

\* (a variant that draws the points as they came, (lng, lat))
_visualize_route_unswapped(locs, route) ==
    IF "warehouse" \notin LocationNames(locs)
    THEN [err |-> Raise("KeyError", "warehouse"), value |-> NoMap]
    ELSE IF \E t \in 1..Len(route) : Len(route[t]) # 2
    THEN [err |-> Raise("ValueError", "unpack"), value |-> NoMap]
    ELSE [err |-> NoError,
          value |->
            [location |-> locs[Lookup(locs, "warehouse")].coords,
             zoom_start |-> 4,
             polylines |->
               <<[locations |-> [t \in 1..Len(route) |->
                                   <<route[t][1], route[t][2]>>],
                  color |-> "blue"]>>,
             markers |-> [t \in 1..Len(locs) |->
                            [location |-> locs[t].coords,
                             tooltip |-> locs[t].name]]]]

\* _visualize_route: the map centred on the warehouse, one polyline of the
\* route coordinates with each (lng, lat) turned into (lat, lng), and one
\* marker per location.
_visualize_route(locs, route) ==
    IF "warehouse" \notin LocationNames(locs)
    THEN [err |-> Raise("KeyError", "warehouse"), value |-> NoMap]
    ELSE IF \E t \in 1..Len(route) : Len(route[t]) # 2
    THEN [err |-> Raise("ValueError", "unpack"), value |-> NoMap]
    ELSE [err |-> NoError,
          value |->
            [location |-> locs[Lookup(locs, "warehouse")].coords,
             zoom_start |-> 4,
             polylines |->
               <<[locations |-> [t \in 1..Len(route) |->
                                   <<route[t][2], route[t][1]>>],
                  color |-> "blue"]>>,
             markers |-> [t \in 1..Len(locs) |->
                            [location |-> locs[t].coords,
                             tooltip |-> locs[t].name]]]]

(***************************************************************************)
(* State.                                                                  *)
(***************************************************************************)
VARIABLES
    pc,                 \* where build is
    locations,          \* self.locations: the (name, (lat, lng)) items in order
    filename,           \* the argument of build
    log,                \* the records logged so far
    requests,           \* the URLs requested so far, in order
    in_flight,          \* the requests sent and not yet answered
    response,           \* the last answer received
    distance_matrix,    \* the locals of build
    route_order,
    ordered_locations,
    route_coordinates,
    route_map,
    directories,        \* the directories there are to write in
    files,              \* the files written
    err,                \* the exception build ended with
    matrix,             \* the argument of a direct call of the optimizer
    result              \* and what the call gave

vars == <<pc, locations, filename, log, requests, in_flight, response,
          distance_matrix, route_order, ordered_locations,
          route_coordinates, route_map, directories, files, err, matrix,
          result>>

bvars == <<pc, locations, filename, log, requests, in_flight, response,
           distance_matrix, route_order, ordered_locations,
           route_coordinates, route_map, directories, files, err>>

ovars == <<matrix, result>>

(***************************************************************************)
(* Inputs of a build.                                                      *)
(***************************************************************************)
Loc(name, lat, lng) == [name |-> name, coords |-> <<lat, lng>>]

LocationChoices ==
    {<<Loc("warehouse", 0, 0), Loc("store", 1, 1)>>,
     <<Loc("store", 1, 2), Loc("warehouse", 3, 4)>>,
     <<Loc("warehouse", 5, 6)>>,
     <<Loc("store", 1, 2), Loc("depot", 3, 4)>>,
     <<Loc("warehouse", 1, 2), Loc("store", 3, 4), Loc("depot", -5, 6)>>}

default_filename ==
    <<"o", "p", "t", "i", "m", "i", "z", "e", "d", "_", "r", "o", "u", "t",
      "e", ".", "h", "t", "m", "l">>

FilenameChoices ==
    {default_filename,
     <<"r", "o", "u", "t", "e", ".", "j", "s", "o", "n">>,
     <<".", "h", "t", "m", "l">>,
     <<"o", "u", "t", ".", "d", "/", "m", "a", "p">>,
     <<"o", "u", "t", ".", "d", "/", "m", ".", "h", "t", "m", "l">>}

\* the working directory has the directory "out.d" or has not
DirectoryChoices == {{}, {<<"o", "u", "t", ".", "d">>}}

Shapes == {sh \in (1..MaxCells) \X (1..MaxCells) :
             /\ sh[1] * sh[2] <= MaxCells
             /\ sh[1] - sh[2] <= MaxSkew
             /\ sh[2] - sh[1] <= MaxSkew}

FiniteValues == {Fin(n) : n \in 0..MaxDist}
NonFiniteValues == {Inf, NegInf, NaN}

\* matrices with a zero diagonal and positive distances elsewhere
ZeroDiagonalMatrices(n) ==
    {m \in [1..n -> [1..n -> FiniteValues]] :
        \A i, j \in 1..n : (m[i][j].v = 0) <=> (i = j)}

TableMatrices ==
    UNION {[1..sh[1] -> [1..sh[2] -> FiniteValues]] :
             sh \in {x \in Shapes : x[1] * x[2] <= MaxTableCells}}
    \cup UNION {ZeroDiagonalMatrices(Len(l)) : l \in LocationChoices}

StatusCodes == {200, 204, 500}

Answer(status, is_json, data) ==
    [exc |-> "None", status_code |-> status, is_json |-> is_json,
     data |-> data]
ConnectionFailed ==
    [exc |-> "ConnectionError", status_code |-> 0, is_json |-> FALSE,
     data |-> <<>>]

TableResponses ==
    {ConnectionFailed}
    \cup {Answer(st, TRUE, [code |-> "InvalidQuery"]) :
             st \in StatusCodes \ {200}}
    \cup {Answer(200, FALSE, <<>>), Answer(200, TRUE, [code |-> "Ok"])}
    \cup {Answer(200, TRUE, [code |-> "Ok", distances |-> m]) :
             m \in TableMatrices}

Points == {<<0, 0>>, <<1, 2>>}
RECURSIVE SeqsUpTo(_, _)
SeqsUpTo(S, n) ==
    IF n = 0 THEN {<<>>}
    ELSE LET shorter == SeqsUpTo(S, n - 1)
         IN  shorter \cup {Append(q, x) : q \in shorter, x \in S}

Geometries == (SeqsUpTo(Points, MaxPoints) \ {<<>>}) \cup {<<<<0, 0, 7>>>>}

RouteResponses ==
    {ConnectionFailed}
    \cup {Answer(st, TRUE, [code |-> "NoRoute"]) : st \in StatusCodes \ {200}}
    \cup {Answer(200, FALSE, <<>>),
          Answer(200, TRUE, [code |-> "Ok"]),
          Answer(200, TRUE, [code |-> "Ok", routes |-> <<>>]),
          Answer(200, TRUE, [code |-> "Ok", routes |-> <<[distance |-> 0]>>]),
          Answer(200, TRUE, [code |-> "Ok",
                             routes |-> <<[geometry |->
                                             [type |-> "LineString"]]>>])}
    \cup {Answer(200, TRUE,
                 [code |-> "Ok",
                  routes |-> <<[geometry |-> [coordinates |-> g]]>>]) :
             g \in Geometries}

NoResponse ==
    [exc |-> "None", status_code |-> 0, is_json |-> FALSE, data |-> <<>>]

Pending == [exc |-> "Pending", msg |-> "", value |-> <<>>]

(***************************************************************************)
(* build, one action per step.                                             *)
(***************************************************************************)
Init ==
    /\ pc = "build"
    /\ locations \in LocationChoices
    /\ filename \in FilenameChoices
    /\ directories \in DirectoryChoices
    /\ log = <<>>
    /\ requests = <<>>
    /\ in_flight = {}
    /\ response = NoResponse
    /\ distance_matrix = <<>>
    /\ route_order = <<>>
    /\ ordered_locations = <<>>
    /\ route_coordinates = <<>>
    /\ route_map = NoMap
    /\ files = {}
    /\ err = NoError
    /\ matrix = <<>>
    /\ result = Pending

\* (a variant that refuses a name with another extension)
CheckExtensionStrict ==
    /\ pc = "build"
    /\ LET ext == splitext_ext(filename)
       IN  /\ pc' = IF ext # target_ext THEN "raised"
                     ELSE "get_distance_matrix"
           /\ err' = IF ext # target_ext THEN Raise("ValueError", "extension")
                      ELSE err
    /\ UNCHANGED <<locations, filename, directories, log, requests, in_flight, response,
                   distance_matrix, route_order, ordered_locations,
                   route_coordinates, route_map, files, matrix, result>>

\* lines 43-48: the warning about the extension
CheckExtension ==
    /\ pc = "build"
    /\ LET ext == splitext_ext(filename)
       IN  log' = IF ext # target_ext
                  THEN Append(log, [level |-> "WARNING",
                                    text |-> "The filename extension should be '{target_ext}', provided '{ext}'.",
                                    args |-> <<target_ext, ext>>])
                  ELSE log
    /\ pc' = "get_distance_matrix"
    /\ UNCHANGED <<locations, filename, directories, requests, in_flight, response,
                   distance_matrix, route_order, ordered_locations,
                   route_coordinates, route_map, files, err, matrix, result>>

\* lines 118-122: requests.get of the table URL
RequestTable ==
    /\ pc = "get_distance_matrix"
    /\ LET url == table_url(LocationValues(locations))
       IN  /\ requests' = Append(requests, url)
           /\ in_flight' = in_flight \cup {url}
    /\ pc' = "table_requested"
    /\ UNCHANGED <<locations, filename, directories, log, response, distance_matrix,
                   route_order, ordered_locations, route_coordinates,
                   route_map, files, err, matrix, result>>

\* lines 122-127 and line 50: the answer of the table service
ReceiveTable ==
    /\ pc = "table_requested"
    /\ \E answer \in TableResponses :
          LET r == DistanceMatrixOf(answer)
          IN  /\ response' = answer
              /\ distance_matrix' = r.value
              /\ err' = r.err
              /\ pc' = IF r.err = NoError THEN "optimize" ELSE "raised"
    /\ in_flight' = {}
    /\ UNCHANGED <<locations, filename, directories, log, requests, route_order,
                   ordered_locations, route_coordinates, route_map, files,
                   matrix, result>>

\* line 51
Optimize ==
    /\ pc = "optimize"
    /\ LET r == _optimize_route_scipy(distance_matrix)
       IN  /\ route_order' = r.value
           /\ err' = Raise(r.exc, r.msg)
           /\ pc' = IF r.exc = "None" THEN "reorder" ELSE "raised"
    /\ UNCHANGED <<locations, filename, directories, log, requests, in_flight, response,
                   distance_matrix, ordered_locations, route_coordinates,
                   route_map, files, matrix, result>>

\* line 53
Reorder ==
    /\ pc = "reorder"
    /\ LET r == OrderedLocations(locations, route_order)
       IN  /\ ordered_locations' = r.value
           /\ err' = r.err
           /\ pc' = IF r.err = NoError THEN "get_route" ELSE "raised"
    /\ UNCHANGED <<locations, filename, directories, log, requests, in_flight, response,
                   distance_matrix, route_order, route_coordinates,
                   route_map, files, matrix, result>>

\* lines 95-99: requests.get of the route URL
RequestRoute ==
    /\ pc = "get_route"
    /\ LET url == route_url(ordered_locations)
       IN  /\ requests' = Append(requests, url)
           /\ in_flight' = in_flight \cup {url}
    /\ pc' = "route_requested"
    /\ UNCHANGED <<locations, filename, directories, log, response, distance_matrix,
                   route_order, ordered_locations, route_coordinates,
                   route_map, files, err, matrix, result>>

\* lines 99-104 and line 54: the answer of the route service
ReceiveRoute ==
    /\ pc = "route_requested"
    /\ \E answer \in RouteResponses :
          LET r == RouteGeometryOf(answer)
          IN  /\ response' = answer
              /\ route_coordinates' = r.value
              /\ err' = r.err
              /\ pc' = IF r.err = NoError THEN "visualize" ELSE "raised"
    /\ in_flight' = {}
    /\ UNCHANGED <<locations, filename, directories, log, requests, distance_matrix,
                   route_order, ordered_locations, route_map, files,
                   matrix, result>>

\* line 55
Visualize ==
    /\ pc = "visualize"
    /\ LET r == _visualize_route(locations, route_coordinates)
       IN  /\ route_map' = r.value
           /\ err' = r.err
           /\ pc' = IF r.err = NoError THEN "save" ELSE "raised"
    /\ UNCHANGED <<locations, filename, directories, log, requests, in_flight, response,
                   distance_matrix, route_order, ordered_locations,
                   route_coordinates, files, matrix, result>>

\* line 57, route_map.save(filename): the file is opened for writing, which
\* fails where its directory is missing; the map is then rendered and
\* written, and an error of that (of the template, of the disk) leaves the
\* file as it was opened, empty.  build catches neither.
Save ==
    /\ pc = "save"
    /\ IF parent_directory(filename) \notin {<<>>} \cup directories
       THEN /\ err' = Raise("FileNotFoundError",
                            "[Errno 2] No such file or directory")
            /\ pc' = "raised"
            /\ UNCHANGED files
       ELSE \E outcome \in SaveOutcomes :
               IF outcome = "written"
               THEN /\ files' = files \cup {[name |-> filename,
                                             content |-> route_map]}
                    /\ pc' = "saved"
                    /\ UNCHANGED err
               ELSE /\ files' = files \cup {[name |-> filename,
                                             content |-> NoMap]}
                    /\ err' = Raise("OSError", "write")
                    /\ pc' = "raised"
    /\ UNCHANGED <<locations, filename, directories, log, requests,
                   in_flight, response, distance_matrix, route_order,
                   ordered_locations, route_coordinates, route_map, matrix,
                   result>>

\* line 58: the name is logged and build returns
LogSaved ==
    /\ pc = "saved"
    /\ log' = Append(log, [level |-> "INFO",
                           text |-> "The route is saved to a file '{filename}'.",
                           args |-> <<filename>>])
    /\ pc' = "returned"
    /\ UNCHANGED <<locations, filename, directories, requests, in_flight,
                   response, distance_matrix, route_order, ordered_locations,
                   route_coordinates, route_map, files, err, matrix, result>>

Next ==
    \/ CheckExtension
    \/ RequestTable
    \/ ReceiveTable
    \/ Optimize
    \/ Reorder
    \/ RequestRoute
    \/ ReceiveRoute
    \/ Visualize
    \/ Save
    \/ LogSaved

Spec == Init /\ [][Next]_vars

(***************************************************************************)
(* The optimizer on its own: a matrix is drawn, then the function applied. *)
(***************************************************************************)
ValuesFor(sh) == IF sh[1] * sh[2] <= MaxNonFiniteCells
                 THEN FiniteValues \cup NonFiniteValues
                 ELSE FiniteValues

Matrices == UNION {[1..sh[1] -> [1..sh[2] -> ValuesFor(sh)]] : sh \in Shapes}

OptInit ==
    /\ matrix \in Matrices
    /\ result = Pending
    /\ pc = "idle"
    /\ locations = <<>>
    /\ filename = default_filename
    /\ directories = {}
    /\ log = <<>>
    /\ requests = <<>>
    /\ in_flight = {}
    /\ response = NoResponse
    /\ distance_matrix = <<>>
    /\ route_order = <<>>
    /\ ordered_locations = <<>>
    /\ route_coordinates = <<>>
    /\ route_map = NoMap
    /\ files = {}
    /\ err = NoError

\* a call of _optimize_route_scipy(matrix)
CallOptimizeRoute ==
    /\ result = Pending
    /\ result' = _optimize_route_scipy(matrix)
    /\ UNCHANGED <<matrix, bvars>>

OptNext == CallOptimizeRoute

SpecOpt == OptInit /\ [][OptNext]_vars

(***************************************************************************)
(* Properties of the optimizer.                                            *)
(***************************************************************************)
IsSquare(m) == Rows(m) = Cols(m)
AllFinite(m) == \A i \in 1..Rows(m), j \in 1..Cols(m) : IsFinite(m[i][j])
Returned == result.exc = "None"
Identity(n) == [t \in 1..n |-> t - 1]
Bijections(n) == {p \in [1..n -> 0..(n - 1)] :
                    \A s, t \in 1..n : s # t => p[s] # p[t]}

\* the total of m[i][order[i]] over the rows i (0-based) of m
RECURSIVE AssignedTotal(_, _, _)
AssignedTotal(m, order, t) ==
    IF t = 0 THEN 0
    ELSE At(m, t - 1, order[t]).v + AssignedTotal(m, order, t - 1)

ZeroDiagonalPositiveElsewhere(m) ==
    /\ IsSquare(m) /\ AllFinite(m)
    /\ \A i, j \in 1..Rows(m) :
          IF i = j THEN m[i][j].v = 0 ELSE m[i][j].v > 0

\* C1: for a square N x N matrix of finite entries the returned order has
\* exactly N entries, each in 0..N-1, none repeated and none omitted.
C1_OrderIsPermutation ==
    (result # Pending /\ IsSquare(matrix) /\ AllFinite(matrix)) =>
        /\ Returned
        /\ Len(result.value) = Rows(matrix)
        /\ \A t \in 1..Len(result.value) :
              result.value[t] \in 0..(Rows(matrix) - 1)
        /\ \A s, t \in 1..Len(result.value) :
              s # t => result.value[s] # result.value[t]
        /\ \A x \in 0..(Rows(matrix) - 1) :
              \E t \in 1..Len(result.value) : result.value[t] = x

C1_Witness ==
    /\ Returned /\ IsSquare(matrix) /\ AllFinite(matrix)
    /\ Rows(matrix) = 3
    /\ result.value = <<2, 0, 1>>

\* C2: for a square finite matrix the returned order, read as the column
\* assigned to each row, has a total no larger than that of any other
\* bijection between rows and columns.
C2_OrderIsMinimumAssignment ==
    (result # Pending /\ IsSquare(matrix) /\ AllFinite(matrix)) =>
        /\ Returned
        /\ Len(result.value) = Rows(matrix)
        /\ \A p \in Bijections(Rows(matrix)) :
              AssignedTotal(matrix, result.value, Rows(matrix))
                 <= AssignedTotal(matrix, p, Rows(matrix))

C2_Witness ==
    /\ Returned /\ IsSquare(matrix) /\ AllFinite(matrix)
    /\ Rows(matrix) = 3
    /\ result.value # Identity(3)
    /\ \A p \in Bijections(3) :
          p # result.value =>
             AssignedTotal(matrix, result.value, 3)
                < AssignedTotal(matrix, p, 3)

\* C6: for a matrix that is not square or holds a non-finite entry the
\* function fails (the claim: with an OptimizationError); it never returns
\* a list of indices for such an input.
C6_InvalidMatrixIsRejected ==
    (result # Pending /\ (~IsSquare(matrix) \/ ~AllFinite(matrix))) =>
        /\ result.exc # "None"
        /\ result.value = <<>>

(***************************************************************************)
(* Properties of build.                                                    *)
(***************************************************************************)
N == Len(locations)
Succeeded == pc = "returned"
Failed == pc = "raised"
\* the log records of one level
Logged(level) == {t \in 1..Len(log) : log[t].level = level}
\* an answer that arrived with an HTTP status outside 2xx
NonSuccessStatus(r) ==
    r # NoResponse /\ r.exc = "None" /\ r.status_code \notin 200..299
TableBase == "http://router.project-osrm.org/table/v1/driving/"
RouteBase == "http://router.project-osrm.org/route/v1/driving/"
\* the name ends in ".html" after a base name that is not empty
HasHtmlExtension(f) ==
    /\ Len(f) > 5
    /\ SubSeq(f, Len(f) - 4, Len(f)) = <<".", "h", "t", "m", "l">>
    /\ f[Len(f) - 5] \notin {"/", "."}

\* C3: a build that fails, at whatever stage, has written no file; a build
\* that returns has written exactly one file, under the name it was given,
\* and has logged that name.
C3_OneFileOnSuccessNoneOnFailure ==
    /\ Failed => files = {}
    /\ Succeeded =>
          /\ Cardinality(files) = 1
          /\ \A f \in files : f.name = filename
          /\ \E t \in Logged("INFO") : log[t].args = <<filename>>

\* C4: when either service answers with a non-success HTTP status the build
\* ends with an error of kind RoutingServiceError, no later stage runs and
\* no file is written.
C4_BadStatusRaisesRoutingServiceError ==
    NonSuccessStatus(response) =>
        /\ Failed
        /\ err.exc = "RoutingServiceError"
        /\ files = {}
        /\ route_map = NoMap

\* C5: a distance answer whose distances are not N x N for the N locations
\* is refused, so that a matrix which _get_distance_matrix returns is
\* exactly N x N.
C5_ReturnedMatrixIsNByN ==
    distance_matrix # <<>> =>
        /\ Rows(distance_matrix) = N
        /\ \A i \in 1..Rows(distance_matrix) : Len(distance_matrix[i]) = N

\* C7: a name whose extension is not ".html" gets exactly one warning and
\* otherwise changes nothing: the check itself never fails, the build goes
\* on to the distance request, and a build that returns has written the
\* file under the name as given; a ".html" name gets no warning.
C7_WrongExtensionOnlyWarns ==
    /\ pc # "build" =>
          Cardinality(Logged("WARNING")) =
             IF HasHtmlExtension(filename) THEN 0 ELSE 1
    /\ (pc # "build" /\ requests = <<>>) =>
          pc = "get_distance_matrix" /\ err = NoError
    /\ Succeeded => \A f \in files : f.name = filename

C7_Witness ==
    /\ Succeeded
    /\ filename = <<"r", "o", "u", "t", "e", ".", "j", "s", "o", "n">>
    /\ Cardinality(Logged("WARNING")) = 1
    /\ \E f \in files : f.name = filename

\* C8: the map of a build that got through rendering holds one marker per
\* location, labelled with its name at its (lat, lng), in the order of the
\* locations whatever the route order, and exactly one path, whose points
\* are the points of the geometry in order, each [lng, lat] turned into
\* (lat, lng); the file written holds that map.
C8_MapHoldsMarkersAndPath ==
    (pc \in {"save", "saved", "returned"}) =>
        /\ Len(route_map.markers) = N
        /\ \A t \in 1..N :
              /\ route_map.markers[t].tooltip = locations[t].name
              /\ route_map.markers[t].location = locations[t].coords
        /\ Len(route_map.polylines) = 1
        /\ Len(route_map.polylines[1].locations) = Len(route_coordinates)
        /\ \A t \in 1..Len(route_coordinates) :
              /\ route_map.polylines[1].locations[t][1]
                    = route_coordinates[t][2]
              /\ route_map.polylines[1].locations[t][2]
                    = route_coordinates[t][1]
        /\ Succeeded => \A f \in files : f.content = route_map

C8_Witness ==
    /\ Succeeded
    /\ N = 2
    /\ route_order = <<1, 0>>
    /\ route_coordinates = <<<<0, 0>>, <<1, 2>>, <<1, 2>>>>
    /\ Len(route_map.markers) = 2
    /\ Len(route_map.polylines[1].locations) = 3

\* C9: the stages of a build come in the order distance request,
\* optimization, geometry request, render, file write, each after its
\* predecessor gave its result; at most one request of each kind is sent,
\* never two in flight; and the geometry request carries exactly N
\* coordinates, the i-th being "lng,lat" of the location whose index is the
\* i-th entry of the route order.
C9_StagesInOrderAndRouteRequestComplete ==
    /\ Cardinality(in_flight) <= 1
    /\ Len(requests) <= 2
    /\ Len(requests) >= 1 => requests[1].base = TableBase
    /\ Len(requests) = 2 => requests[2].base = RouteBase
    /\ distance_matrix # <<>> => Len(requests) >= 1
    /\ route_order # <<>> => distance_matrix # <<>>
    /\ ordered_locations # <<>> => route_order # <<>>
    /\ Len(requests) = 2 => ordered_locations # <<>>
    /\ route_coordinates # <<>> => Len(requests) = 2 /\ in_flight = {}
    /\ route_map # NoMap => route_coordinates # <<>>
    /\ files # {} => route_map # NoMap
    /\ Len(requests) = 2 =>
          /\ Len(requests[2].coordinates) = N
          /\ \A t \in 1..Len(requests[2].coordinates) :
                requests[2].coordinates[t] =
                   ToString(locations[route_order[t] + 1].coords[2])
                      \o "," \o
                   ToString(locations[route_order[t] + 1].coords[1])

\* C10: for a distance matrix with a zero diagonal and strictly positive
\* entries elsewhere the order returned is the identity 0, 1, ..., N-1, and
\* the build then sends the locations to the geometry service in the order
\* of the mapping.
C10_ZeroDiagonalGivesIdentity ==
    (route_order # <<>> /\ ZeroDiagonalPositiveElsewhere(distance_matrix)) =>
        /\ route_order = Identity(Rows(distance_matrix))
        /\ (Len(requests) = 2 /\ Rows(distance_matrix) = N) =>
              requests[2].coordinates =
                 [t \in 1..N |->
                    ToString(locations[t].coords[2]) \o "," \o
                    ToString(locations[t].coords[1])]

C10_Witness ==
    /\ N = 3
    /\ Len(distance_matrix) = 3
    /\ ZeroDiagonalPositiveElsewhere(distance_matrix)
    /\ distance_matrix[1][2] # distance_matrix[2][1]
    /\ distance_matrix[1][3].v = MaxDist
    /\ route_order = <<0, 1, 2>>
    /\ Len(requests) = 2
    /\ requests[2].coordinates = <<"2,1", "4,3", "6,-5">>

====
